---- MODULE Spec2Model ----
(***************************************************************************)
(* Model of scripts/smart_vertical_crop.py: the crop planner (calc_crop    *)
(* and the confidence heuristic), the two frame samplers, the subject      *)
(* locator (_pick_box, detect_center), the segment analyzer                *)
(* (analyze_crop_coordinates and its fallback) and the batch driver        *)
(* (main, process_video).                                                  *)
(*                                                                         *)
(* Numbers.  Python floats are modelled by exact rationals [n, d] with     *)
(* d > 0, so the rounding of a float product or quotient is not modelled;  *)
(* int() is truncation toward zero.  Durations are whole seconds (fps is   *)
(* 0 or 1).                                                                *)
(*                                                                         *)
(* Environment.  What the decoder, the detector, scenedetect and ffmpeg    *)
(* answer is chosen nondeterministically in the action that calls them:    *)
(* how many of the requested frames decode, which person boxes each frame  *)
(* shows, whether a child process exits non-zero, whether the detector     *)
(* raises.  Path.unlink is taken to succeed.                               *)
(***************************************************************************)
EXTENDS Integers, Sequences, FiniteSets, TLC

VARIABLES
    cropIn, cropOut, cropDone,      \* one application of the crop planner
    sampIn, sampOut, sampDone,      \* one application of sample_frames_direct
    mode,           \* main's dispatch: "analyze" (--single-video --analyze-only) or "batch"
    args,           \* the parsed command line
    video,          \* analyze mode: the video file as the decoder reports it
    pc,             \* position in analyze_crop_coordinates / main + process_video
    nScenes,        \* len(scenes): the scene files run_scenedetect returned
    idx,            \* the scene loop's position, 1-based
    scene_crops,    \* analyze_crop_coordinates' scene_crops
    current_time,   \* analyze_crop_coordinates' current_time
    seen,           \* history: per scene analysed, its duration and whether it was dropped
    tempFiles,      \* the files under temp_scenes/, as <<video, scene>>
    result,         \* what analyze_crop_coordinates returned
    nScenedetect,   \* history: calls of run_scenedetect
    nDirect,        \* history: calls of sample_frames_direct
    escaped,        \* an exception left analyze_crop_coordinates / reached main
    nVideos,        \* batch mode: len(videos)
    vi,             \* batch mode: main's loop position, 1-based
    status,         \* batch mode, history: what became of each video
    cropped_scenes  \* process_video's cropped_scenes (the scene each path is of)

pureVars == <<cropIn, cropOut, cropDone, sampIn, sampOut, sampDone>>

mainVars == <<mode, args, video, pc, nScenes, idx, scene_crops, current_time, seen,
              tempFiles, result, nScenedetect, nDirect, escaped, nVideos, vi,
              status, cropped_scenes>>

vars == <<pureVars, mainVars>>

\* ------------------------------------------------------------------ bounds
MaxW == 6
MaxH == 12
MaxCount == 5
MaxFrameCount == 40
MaxVideoFrames == 10
MaxN == 2
MaxScenes == 2
MaxSceneFrames == 1
MaxBoxes == 2
MaxVideos == 2

\* `if duration < 10`: the short-video threshold, in seconds.
ShortLimit == 10

\* --------------------------------------------------------------- arithmetic
Min(a, b) == IF a <= b THEN a ELSE b
Max(a, b) == IF a >= b THEN a ELSE b
Abs(a) == IF a >= 0 THEN a ELSE -a

\* Python's int() of the rational a/b, b > 0: truncation toward zero.
Trunc(a, b) == IF a >= 0 THEN a \div b ELSE -((-a) \div b)

\* Python's round() of the rational a/b, a >= 0, b > 0: half to even.
RoundHalfEven(a, b) ==
    LET q == a \div b
        r == a % b
    IN  IF 2 * r < b THEN q
        ELSE IF 2 * r > b THEN q + 1
        ELSE IF q % 2 = 0 THEN q ELSE q + 1

Rat(n, d) == [n |-> n, d |-> d]

RECURSIVE GCD(_, _)
GCD(a, b) == IF b = 0 THEN a ELSE GCD(b, a % b)

\* The rational n/d, n >= 0 and d > 0, in lowest terms: one value per float.
Lowest(n, d) == Rat(n \div GCD(n, d), d \div GCD(n, d))

\* ------------------------------------------------------------ crop planner
\* calc_crop without the final clamp of x.
CalcCropNoClamp(width, height, center_x, padding) ==
    LET crop_w0 == Trunc(height * 9, 16)
        crop_w1 == Min(crop_w0, width)
        pad_px  == Trunc(crop_w1 * padding.n, padding.d)
        crop_w  == crop_w1 - 2 * pad_px
        x0      == Trunc(2 * center_x.n - crop_w * center_x.d, 2 * center_x.d)
    IN  [w |-> crop_w, h |-> height, x |-> x0, y |-> 0]

\* calc_crop with round() in the place of int() for the two widths.
CalcCropRound(width, height, center_x, padding) ==
    LET crop_w0 == RoundHalfEven(height * 9, 16)
        crop_w1 == Min(crop_w0, width)
        pad_px  == RoundHalfEven(crop_w1 * padding.n, padding.d)
        crop_w  == crop_w1 - 2 * pad_px
        x0      == Trunc(2 * center_x.n - crop_w * center_x.d, 2 * center_x.d)
        x1      == Max(0, Min(x0, width - crop_w))
    IN  [w |-> crop_w, h |-> height, x |-> x1, y |-> 0]

\* calc_crop(width, height, center_x, padding) -> (crop_w, height, x, 0).
CalcCrop(width, height, center_x, padding) ==
    LET crop_w0 == Trunc(height * 9, 16)
        crop_w1 == Min(crop_w0, width)
        pad_px  == Trunc(crop_w1 * padding.n, padding.d)
        crop_w  == crop_w1 - 2 * pad_px
        x0      == Trunc(2 * center_x.n - crop_w * center_x.d, 2 * center_x.d)
        x1      == Max(0, Min(x0, width - crop_w))
    IN  [w |-> crop_w, h |-> height, x |-> x1, y |-> 0]

\* deviation = abs(center - width/2) / (width/2); max(0.1, 1.0 - deviation).
\* Only evaluated for width > 0 (width = 0 divides by zero, see ConfidenceRaises).
Confidence(width, center) ==
    LET dev_n == Abs(2 * center.n - width * center.d)
        dev_d == width * center.d
    IN  IF 10 * (dev_d - dev_n) >= dev_d
        THEN Rat(dev_d - dev_n, dev_d)
        ELSE Rat(1, 10)

ConfidenceRaises(width) == width = 0

\* ----------------------------------------------------- whole-video sampler
StartFrame(frame_count) == Trunc(frame_count * 1, 10)
EndFrame(frame_count) == Trunc(frame_count * 9, 10)

\* The frame indices sample_frames_direct asks the decoder for, in order, and
\* whether the loop body raises ZeroDivisionError (i / (num_frames - 1) with
\* num_frames = 1, in the first iteration, before any frame is requested).
SampleFramesDirect(frame_count, num_frames) ==
    IF num_frames = 1
    THEN [raised |-> TRUE, idxs |-> <<>>]
    ELSE [raised |-> FALSE,
          idxs |-> [k \in 1..Max(num_frames, 0) |->
                      StartFrame(frame_count)
                      + Trunc((k - 1) * (EndFrame(frame_count) - StartFrame(frame_count)),
                              num_frames - 1)]]

\* The indices among idxs a decoder of frame_count frames can deliver at all.
ReadableCount(idxs, frame_count) ==
    Cardinality({k \in DOMAIN idxs : idxs[k] >= 0 /\ idxs[k] < frame_count})

\* --------------------------------------------------------- segment sampler
\* sample_frames: idx = int((i + 1) * frame_count / (frames_per_scene + 1)).
SampleFrames(frame_count, frames_per_scene) ==
    [k \in 1..Max(frames_per_scene, 0) |-> Trunc(k * frame_count, frames_per_scene + 1)]

\* get_video_duration: frame_count / fps if fps > 0 else 0 (fps divides
\* frame_count in every file of the model).
Duration(v) == IF v.fps > 0 THEN v.frame_count \div v.fps ELSE 0

\* --------------------------------------------------------- subject locator
BoxArea(b) == (b.x2 - b.x1) * (b.y2 - b.y1)

\* |box centre - frame_center|, doubled twice to stay in the integers
\* (frame_center = frame_width / 2).
BoxOffCentre(b, frame_width) == Abs(2 * (b.x1 + b.x2) - 2 * frame_width)

\* _pick_box: the index of the chosen box, 0 for None.  np.argmax and
\* np.argmin return the first extremum.
PickBox(boxes, frame_width, strategy) ==
    IF Len(boxes) = 0 THEN 0
    ELSE IF strategy = "largest"
    THEN CHOOSE k \in 1..Len(boxes) :
            /\ \A j \in 1..Len(boxes) : BoxArea(boxes[j]) <= BoxArea(boxes[k])
            /\ \A j \in 1..(k - 1) : BoxArea(boxes[j]) < BoxArea(boxes[k])
    ELSE CHOOSE k \in 1..Len(boxes) :
            /\ \A j \in 1..Len(boxes) :
                  BoxOffCentre(boxes[k], frame_width) <= BoxOffCentre(boxes[j], frame_width)
            /\ \A j \in 1..(k - 1) :
                  BoxOffCentre(boxes[k], frame_width) < BoxOffCentre(boxes[j], frame_width)

\* Lines 178-180 for one frame: <<>> when _pick_box returns None, else
\* <<x1 + x2>> of the chosen box (twice its x-centre).
Chosen(boxes, frame_width, strategy) ==
    LET c == PickBox(boxes, frame_width, strategy)
    IN  IF c = 0 THEN <<>> ELSE <<boxes[c].x1 + boxes[c].x2>>

RECURSIVE SumCentres(_, _)
\* Over the frames k..Len(chosen): <<sum of x1 + x2 of the chosen boxes, how many>>.
SumCentres(chosen, k) ==
    IF k > Len(chosen) THEN <<0, 0>>
    ELSE LET rest == SumCentres(chosen, k + 1)
         IN  IF chosen[k] = <<>> THEN rest
             ELSE <<rest[1] + chosen[k][1], rest[2] + 1>>

\* Lines 181-183 of detect_center, given what was chosen in each frame: the
\* mean of the chosen boxes' x-centres, frame_width / 2 when there is none.
DetectCenter(chosen, frame_width) ==
    LET s == SumCentres(chosen, 1)
    IN  IF s[2] = 0 THEN Lowest(frame_width, 2) ELSE Lowest(s[1], 2 * s[2])

\* ------------------------------------------------- inputs of the pure specs
PadPcts == 0..49
Paddings == {Rat(p, 100) : p \in PadPcts}

SmallCropInputs ==
    {[width |-> w, height |-> h, center |-> Rat(c2, 2), padding |-> p] :
        w \in 1..MaxW, h \in 1..MaxH, c2 \in 0..(2 * MaxW), p \in Paddings}

ScenarioCropInputs ==
    {[width |-> 1920, height |-> 1080, center |-> Rat(960, 1), padding |-> Rat(5, 100)],
     [width |-> 1920, height |-> 1080, center |-> Rat(0, 1), padding |-> Rat(5, 100)],
     [width |-> 1920, height |-> 1080, center |-> Rat(1920, 1), padding |-> Rat(5, 100)],
     [width |-> 1280, height |-> 720, center |-> Rat(0, 1), padding |-> Rat(0, 100)],
     [width |-> 1280, height |-> 720, center |-> Rat(640, 1), padding |-> Rat(0, 100)]}

CropInputs ==
    {i \in SmallCropInputs : i.center.n <= 2 * i.width} \cup ScenarioCropInputs

NoCrop == [w |-> 0, h |-> 0, x |-> 0, y |-> 0, confidence |-> Rat(0, 1)]
NoCropIn == [width |-> 1, height |-> 1, center |-> Rat(0, 2), padding |-> Rat(0, 100)]
NoSample == [raised |-> FALSE, idxs |-> <<>>]
NoSampleIn == [frame_count |-> 0, num_frames |-> 0]

NoArgs == [frames_per_scene |-> 0, padding |-> Rat(0, 100), strategy |-> "largest",
           overwrite |-> FALSE]
NoVideo == [frame_count |-> 0, fps |-> 0, width |-> 0, height |-> 0]
NoResult == [pending |-> TRUE]

\* The analyzer and the batch driver at rest (the pure specifications).
IdleMain ==
    /\ mode = "none" /\ args = NoArgs /\ video = NoVideo /\ pc = "idle"
    /\ nScenes = 0 /\ idx = 0 /\ scene_crops = <<>> /\ current_time = 0
    /\ seen = <<>> /\ tempFiles = {} /\ result = NoResult
    /\ nScenedetect = 0 /\ nDirect = 0 /\ escaped = FALSE
    /\ nVideos = 0 /\ vi = 0 /\ status = <<>> /\ cropped_scenes = <<>>

IdlePure ==
    /\ cropIn = NoCropIn /\ cropOut = NoCrop /\ cropDone = FALSE
    /\ sampIn = NoSampleIn /\ sampOut = NoSample /\ sampDone = FALSE

\* ---------------------------------------------- specification: crop planner
InitCrop ==
    /\ cropIn \in CropInputs
    /\ cropOut = NoCrop
    /\ cropDone = FALSE
    /\ sampIn = NoSampleIn /\ sampOut = NoSample /\ sampDone = FALSE
    /\ IdleMain

\* Lines 236-241: calc_crop, then the confidence of the focus point.
PlanCrop ==
    /\ ~cropDone
    /\ LET r == CalcCrop(cropIn.width, cropIn.height, cropIn.center, cropIn.padding)
       IN  cropOut' = [w |-> r.w, h |-> r.h, x |-> r.x, y |-> r.y,
                       confidence |-> Confidence(cropIn.width, cropIn.center)]
    /\ cropDone' = TRUE
    /\ UNCHANGED <<cropIn, sampIn, sampOut, sampDone, mainVars>>

NextCrop == PlanCrop

SpecCrop == InitCrop /\ [][NextCrop]_vars

\* --------------------------------------- specification: whole-video sampler
InitSample ==
    /\ sampIn \in [frame_count : 0..MaxFrameCount, num_frames : 0..MaxCount]
    /\ sampOut = NoSample
    /\ sampDone = FALSE
    /\ cropIn = NoCropIn /\ cropOut = NoCrop /\ cropDone = FALSE
    /\ IdleMain

RunSampleDirect ==
    /\ ~sampDone
    /\ sampOut' = SampleFramesDirect(sampIn.frame_count, sampIn.num_frames)
    /\ sampDone' = TRUE
    /\ UNCHANGED <<sampIn, cropIn, cropOut, cropDone, mainVars>>

NextSample == RunSampleDirect

SpecSample == InitSample /\ [][NextSample]_vars

\* ------------------------------------------------ the environment's inputs
Dims == {<<64, 36>>}

\* A file cv2 cannot open reports zeros for everything.
VideoFrameCounts == {0, 3} \cup (ShortLimit - 1)..MaxVideoFrames

Videos ==
    {[frame_count |-> f, fps |-> r, width |-> d[1], height |-> d[2]] :
        f \in VideoFrameCounts, r \in {0, 1}, d \in Dims}
    \cup {NoVideo}

\* The scene files split-video writes keep the source's dimensions.
SceneFiles(d) ==
    {[frame_count |-> f, fps |-> r,
      width |-> IF f > 0 THEN d[1] ELSE 0, height |-> IF f > 0 THEN d[2] ELSE 0] :
        f \in 0..MaxSceneFrames, r \in {0, 1}}

ArgsSet ==
    [frames_per_scene : 0..MaxN, padding : {Rat(5, 100)},
     strategy : {"largest", "centered"}, overwrite : BOOLEAN]

\* Person boxes (xyxy) the detector may report in a frame of w x h.
\* A tall one in the left half and a wider, flatter one right of the middle:
\* 'largest' takes the first, 'centered' the second.
Boxes(w, h) ==
    {[x1 |-> 0, y1 |-> 0, x2 |-> w \div 2, y2 |-> h],
     [x1 |-> w \div 4, y1 |-> 0, x2 |-> w, y2 |-> h \div 2]}

BoxLists(w, h) == UNION {[1..m -> Boxes(w, h)] : m \in 0..MaxBoxes}

\* What detect_center can come to choose in one frame of w x h.
FrameChoices(w, h, strategy) == {Chosen(bl, w, strategy) : bl \in BoxLists(w, h)}

Exceptions == {"ZeroDivisionError", "CalledProcessError", "DetectorError"}

\* ------------------------------------------------------------ the results
Failure(e) == [success |-> FALSE, error |-> e]

CropRecord(c, conf) == [w |-> c.w, h |-> c.h, x |-> c.x, y |-> c.y, confidence |-> conf]

SingleResult(c, conf, width, height, duration) ==
    [success |-> TRUE, type |-> "single", crop |-> CropRecord(c, conf),
     source |-> [width |-> width, height |-> height, duration |-> duration]]

RatAdd(a, b) == Rat(a.n * b.d + b.n * a.d, a.d * b.d)

RECURSIVE SumConfidence(_, _)
SumConfidence(crops, k) ==
    IF k > Len(crops) THEN Rat(0, 1)
    ELSE RatAdd(crops[k].crop.confidence, SumConfidence(crops, k + 1))

\* Lines 316-330: the 'multi' result.
MultiResult(crops, width, height, duration) ==
    [success |-> TRUE, type |-> "multi", scenes |-> crops,
     overall_confidence |->
        Rat(SumConfidence(crops, 1).n, SumConfidence(crops, 1).d * Len(crops)),
     source |-> [width |-> width, height |-> height, duration |-> duration,
                 scene_count |-> Len(crops)]]

\* Lines 292-302: the record appended to scene_crops, with end_time taken as
\* the scene's own duration instead of the running sum.
SceneRecordAbsoluteEnd(start, scene_duration, c, conf) ==
    [start_time |-> start, end_time |-> scene_duration, crop |-> CropRecord(c, conf)]

\* Lines 292-302: the record appended to scene_crops.
SceneRecord(start, scene_duration, c, conf) ==
    [start_time |-> start, end_time |-> start + scene_duration,
     crop |-> CropRecord(c, conf)]

\* `if duration < 10` off by one.
IsShortOffByOne(duration) == duration < ShortLimit - 1

\* Line 223: `if duration < 10`.
IsShort(duration) == duration < ShortLimit

\* `except subprocess.CalledProcessError` in the place of `except Exception`.
AnalyzerCatchesProcessOnly(e) == e = "CalledProcessError"

\* Lines 213, 332: the try block spans the whole body; `except Exception`.
AnalyzerCatches(e) == e \in Exceptions

\* main and process_video hold no try block.
BatchCatches(e) == FALSE

\* --------------------------------------------- specification: main's modes
Init ==
    /\ IdlePure
    /\ args \in ArgsSet
    /\ nScenes = 0 /\ idx = 0 /\ scene_crops = <<>> /\ current_time = 0
    /\ seen = <<>> /\ tempFiles = {} /\ result = NoResult
    /\ nScenedetect = 0 /\ nDirect = 0 /\ escaped = FALSE
    /\ cropped_scenes = <<>>
    /\ \/ /\ mode = "analyze"
          /\ video \in Videos
          /\ args.overwrite = FALSE
          /\ pc = "a_start"
          /\ nVideos = 0 /\ vi = 0 /\ status = <<>>
       \/ /\ mode = "batch"
          /\ video = NoVideo
          /\ pc = "b_loop"
          /\ nVideos \in 0..MaxVideos
          /\ vi = 1
          /\ status = [k \in 1..nVideos |-> "pending"]

\* `return <dict>` from analyze_crop_coordinates.
Return(r) == result' = r /\ pc' = "returned" /\ UNCHANGED escaped

\* An exception raised inside analyze_crop_coordinates' try block.
RaiseA(e) ==
    IF AnalyzerCatches(e)
    THEN result' = Failure(e) /\ pc' = "returned" /\ UNCHANGED escaped
    ELSE escaped' = TRUE /\ pc' = "crashed" /\ UNCHANGED result

\* An exception raised inside process_video, called from main's loop.
RaiseB(e) ==
    IF BatchCatches(e)
    THEN /\ status' = [status EXCEPT ![vi] = "failed"]
         /\ vi' = vi + 1 /\ pc' = "b_loop" /\ UNCHANGED escaped
    ELSE escaped' = TRUE /\ pc' = "crashed" /\ UNCHANGED <<status, vi>>

\* Lines 233-258 and 349-371: detect_center, calc_crop, the confidence, the
\* 'single' result.
PlanSingle(chosen, duration) ==
    LET center == DetectCenter(chosen, video.width)
    IN  IF ConfidenceRaises(video.width)
        THEN RaiseA("ZeroDivisionError")
        ELSE Return(SingleResult(
                 CalcCrop(video.width, video.height, center, args.padding),
                 Confidence(video.width, center),
                 video.width, video.height, duration))

\* The whole-video path: sample_frames_direct, `if not frames`, then PlanSingle.
WholeVideoPath ==
    LET s == SampleFramesDirect(video.frame_count, args.frames_per_scene)
    IN  /\ nDirect' = nDirect + 1
        /\ IF s.raised
           THEN RaiseA("ZeroDivisionError")
           ELSE \E n \in 0..ReadableCount(s.idxs, video.frame_count) :
                   IF n = 0
                   THEN Return(Failure("Could not extract frames from video"))
                   ELSE \/ RaiseA("DetectorError")
                        \/ \E chosen \in [1..n -> FrameChoices(video.width, video.height,
                                                               args.strategy)] :
                              PlanSingle(chosen, Duration(video))

\* Lines 215-223: read the video's properties and branch on the duration.
CheckDuration ==
    /\ pc = "a_start"
    /\ pc' = IF IsShort(Duration(video)) THEN "a_short" ELSE "a_segment"
    /\ UNCHANGED <<pureVars, mode, args, video, nScenes, idx, scene_crops, current_time,
                   seen, tempFiles, result, nScenedetect, nDirect, escaped, nVideos,
                   vi, status, cropped_scenes>>

\* Lines 224-258.
ShortPath ==
    /\ pc = "a_short"
    /\ WholeVideoPath
    /\ UNCHANGED <<pureVars, mode, args, video, nScenes, idx, scene_crops, current_time,
                   seen, tempFiles, nScenedetect, nVideos, vi, status, cropped_scenes>>

\* Lines 264-271: run_scenedetect (subprocess.run(check=True) raises
\* CalledProcessError on a non-zero exit), `if not scenes`.
RunScenedetectA ==
    /\ pc = "a_segment"
    /\ nScenedetect' = nScenedetect + 1
    /\ \/ /\ RaiseA("CalledProcessError")
          /\ UNCHANGED <<nScenes, idx, tempFiles>>
       \/ \E k \in 0..MaxScenes :
             /\ nScenes' = k
             /\ tempFiles' = tempFiles \cup {<<1, j>> : j \in 1..k}
             /\ idx' = 1
             /\ pc' = IF k = 0 THEN "a_fallback" ELSE "a_scene"
             /\ UNCHANGED <<result, escaped>>
    /\ UNCHANGED <<pureVars, mode, args, video, scene_crops, current_time, seen,
                   nDirect, nVideos, vi, status, cropped_scenes>>

\* Lines 273-304: one iteration of the scene loop.
AnalyzeScene ==
    /\ pc = "a_scene"
    /\ idx <= nScenes
    /\ \E sc \in SceneFiles(<<video.width, video.height>>) :
        \E n \in 0..ReadableCount(SampleFrames(sc.frame_count, args.frames_per_scene),
                                  sc.frame_count) :
          IF n = 0
          THEN /\ seen' = Append(seen, [duration |-> Duration(sc), dropped |-> TRUE])
               /\ idx' = idx + 1
               /\ UNCHANGED <<scene_crops, current_time, pc, result, escaped>>
          ELSE \/ /\ RaiseA("DetectorError")
                  /\ UNCHANGED <<seen, idx, scene_crops, current_time>>
               \/ /\ ConfidenceRaises(sc.width)
                  /\ RaiseA("ZeroDivisionError")
                  /\ UNCHANGED <<seen, idx, scene_crops, current_time>>
               \/ /\ ~ConfidenceRaises(sc.width)
                  /\ \E chosen \in [1..n -> FrameChoices(sc.width, sc.height,
                                                         args.strategy)] :
                      LET center == DetectCenter(chosen, sc.width)
                      IN  scene_crops' = Append(scene_crops,
                              SceneRecord(current_time, Duration(sc),
                                  CalcCrop(sc.width, sc.height, center, args.padding),
                                  Confidence(sc.width, center)))
                  /\ current_time' = current_time + Duration(sc)
                  /\ seen' = Append(seen, [duration |-> Duration(sc), dropped |-> FALSE])
                  /\ idx' = idx + 1
                  /\ UNCHANGED <<pc, result, escaped>>
    /\ UNCHANGED <<pureVars, mode, args, video, nScenes, tempFiles, nScenedetect,
                   nDirect, nVideos, vi, status, cropped_scenes>>

\* Lines 306-330: unlink the scene files, then the fallback or the 'multi' result.
FinishScenes ==
    /\ pc = "a_scene"
    /\ idx > nScenes
    /\ tempFiles' = tempFiles \ {<<1, j>> : j \in 1..nScenes}
    /\ IF scene_crops = <<>>
       THEN pc' = "a_fallback" /\ UNCHANGED <<result, escaped>>
       ELSE Return(MultiResult(scene_crops, video.width, video.height, Duration(video)))
    /\ UNCHANGED <<pureVars, mode, args, video, nScenes, idx, scene_crops, current_time,
                   seen, nScenedetect, nDirect, nVideos, vi, status, cropped_scenes>>

\* Lines 339-371: analyze_crop_coordinates_fallback, called inside the try block.
Fallback ==
    /\ pc = "a_fallback"
    /\ WholeVideoPath
    /\ UNCHANGED <<pureVars, mode, args, video, nScenes, idx, scene_crops, current_time,
                   seen, tempFiles, nScenedetect, nVideos, vi, status, cropped_scenes>>

\* Lines 440-441 and 404-407: main's loop takes the next video; process_video
\* skips it when its output exists and --overwrite is not given.
ProcessVideoStart ==
    /\ pc = "b_loop"
    /\ vi <= nVideos
    /\ \E output_exists \in BOOLEAN :
          IF output_exists /\ ~args.overwrite
          THEN /\ status' = [status EXCEPT ![vi] = "skipped"]
               /\ vi' = vi + 1
               /\ UNCHANGED pc
          ELSE pc' = "b_segment" /\ UNCHANGED <<status, vi>>
    /\ UNCHANGED <<pureVars, mode, args, video, nScenes, idx, scene_crops, current_time,
                   seen, tempFiles, result, nScenedetect, nDirect, escaped, nVideos,
                   cropped_scenes>>

\* Line 410-411: run_scenedetect in process_video.
RunScenedetectB ==
    /\ pc = "b_segment"
    /\ nScenedetect' = nScenedetect + 1
    /\ \/ /\ RaiseB("CalledProcessError")
          /\ UNCHANGED <<nScenes, idx, tempFiles, cropped_scenes>>
       \/ \E k \in 0..MaxScenes :
             /\ nScenes' = k
             /\ tempFiles' = tempFiles \cup {<<vi, j>> : j \in 1..k}
             /\ idx' = 1
             /\ cropped_scenes' = <<>>
             /\ pc' = "b_scene"
             /\ UNCHANGED <<status, vi, escaped>>
    /\ UNCHANGED <<pureVars, mode, args, video, scene_crops, current_time, seen,
                   result, nDirect, nVideos>>

\* crop_scene's ffmpeg run (check=True) can fail on any input, and does fail
\* on an empty crop window.
FfmpegCanCrop(crop_params) == crop_params.w > 0 /\ crop_params.h > 0

\* Lines 412-417: one iteration of process_video's scene loop.  With no frame
\* read, what model.predict([]) does is the library's: it raises or returns
\* no result, and detect_center then answers frame_width / 2.
CropScene ==
    /\ pc = "b_scene"
    /\ idx <= nScenes
    /\ \E d \in Dims : \E sc \in SceneFiles(d) :
        \E n \in 0..ReadableCount(SampleFrames(sc.frame_count, args.frames_per_scene),
                                  sc.frame_count) :
          \/ /\ RaiseB("DetectorError")
             /\ UNCHANGED <<idx, cropped_scenes>>
          \/ \E chosen \in [1..n -> FrameChoices(sc.width, sc.height, args.strategy)] :
                LET crop_params == CalcCrop(sc.width, sc.height,
                                            DetectCenter(chosen, sc.width), args.padding)
                IN  \/ /\ RaiseB("CalledProcessError")
                       /\ UNCHANGED <<idx, cropped_scenes>>
                    \/ /\ FfmpegCanCrop(crop_params)
                       /\ cropped_scenes' = Append(cropped_scenes, idx)
                       /\ idx' = idx + 1
                       /\ UNCHANGED <<pc, status, vi, escaped>>
    /\ UNCHANGED <<pureVars, mode, args, video, nScenes, scene_crops, current_time,
                   seen, tempFiles, result, nScenedetect, nDirect, nVideos>>

\* Lines 418-419: concat_scenes (ffmpeg, check=True), then back to main's loop.
ConcatScenes ==
    /\ pc = "b_scene"
    /\ idx > nScenes
    /\ \/ /\ RaiseB("CalledProcessError")
          /\ UNCHANGED <<nScenes, idx, cropped_scenes>>
       \/ /\ status' = [status EXCEPT ![vi] = "saved"]
          /\ vi' = vi + 1
          /\ pc' = "b_loop"
          /\ nScenes' = 0 /\ idx' = 0 /\ cropped_scenes' = <<>>
          /\ UNCHANGED escaped
    /\ UNCHANGED <<pureVars, mode, args, video, scene_crops, current_time,
                   seen, tempFiles, result, nScenedetect, nDirect, nVideos>>

\* main's loop is exhausted.
BatchEnd ==
    /\ pc = "b_loop"
    /\ vi > nVideos
    /\ pc' = "b_end"
    /\ UNCHANGED <<pureVars, mode, args, video, nScenes, idx, scene_crops, current_time,
                   seen, tempFiles, result, nScenedetect, nDirect, escaped, nVideos,
                   vi, status, cropped_scenes>>

Next ==
    \/ CheckDuration
    \/ ShortPath
    \/ RunScenedetectA
    \/ AnalyzeScene
    \/ FinishScenes
    \/ Fallback
    \/ ProcessVideoStart
    \/ RunScenedetectB
    \/ CropScene
    \/ ConcatScenes
    \/ BatchEnd

Spec == Init /\ [][Next]_vars

\* Every call made is left: the interpreter runs the next statement, and the
\* child processes and the detector are taken to answer.
FairSpec == Spec /\ WF_vars(Next)

\* ------------------------------------------------------------------ claims

\* C1: for source_width >= 1, source_height >= 1, a focus point in
\* [0, source_width] and a padding ratio in [0, 0.5), the rectangle calc_crop
\* returns has 0 <= x, x + w <= source_width, h = source_height and y = 0.
C1_CropWithinSource ==
    cropDone =>
        /\ 0 <= cropOut.x
        /\ cropOut.x + cropOut.w <= cropIn.width
        /\ cropOut.h = cropIn.height
        /\ cropOut.y = 0

\* The clamp fires: a focus point on the right edge, a crop narrower than
\* the source, and the window pushed back against that edge.
C1_Witness ==
    /\ cropDone
    /\ cropOut.w > 0
    /\ cropOut.w < cropIn.width
    /\ cropIn.center.n = cropIn.center.d * cropIn.width
    /\ cropOut.x = cropIn.width - cropOut.w

AnalysisReturned == mode = "analyze" /\ pc = "returned"

\* C2: when the video's duration is below 10 seconds, run_scenedetect is
\* never invoked during the analysis, sample_frames_direct has run exactly
\* once when the analysis returns, and a successful result has type 'single'.
C2_ShortPathOnly ==
    (mode = "analyze" /\ Duration(video) < 10) =>
        /\ nScenedetect = 0
        /\ pc \notin {"a_segment", "a_scene", "a_fallback"}
        /\ pc = "returned" =>
              /\ nDirect = 1
              /\ result.success => result.type = "single"

\* A video of 9 seconds analysed to a successful 'single' plan.
C2_Witness ==
    /\ AnalysisReturned
    /\ Duration(video) = 9
    /\ result.success
    /\ result.type = "single"
    /\ nDirect = 1

\* A structured result: success with a plan, or failure with an error string.
Structured(r) ==
    \/ /\ DOMAIN r = {"success", "error"}
       /\ r.success = FALSE
       /\ r.error \in Exceptions \cup {"Could not extract frames from video"}
    \/ /\ "success" \in DOMAIN r
       /\ r.success = TRUE
       /\ "type" \in DOMAIN r
       /\ \/ r.type = "single" /\ "crop" \in DOMAIN r
          \/ r.type = "multi" /\ "scenes" \in DOMAIN r

\* C3: every call of analyze_crop_coordinates comes to return, no exception
\* leaves it whatever step fails, and what it returns is one structured
\* result.
C3_AlwaysStructuredResult ==
    /\ [](mode = "analyze" =>
            /\ ~escaped
            /\ pc # "crashed"
            /\ pc = "returned" <=> result # NoResult
            /\ pc = "returned" => Structured(result))
    /\ (mode = "analyze") ~> (pc = "returned")

\* An exception raised in the fallback path, after segmentation found no
\* scene, came back as a failure result.
C3_Witness ==
    /\ AnalysisReturned
    /\ nScenedetect = 1
    /\ nDirect = 1
    /\ ~result.success
    /\ result.error \in {"ZeroDivisionError", "DetectorError"}

RECURSIVE Coverage(_, _)
\* Sum of end_time - start_time over the segments k..Len(crops).
Coverage(crops, k) ==
    IF k > Len(crops) THEN 0
    ELSE crops[k].end_time - crops[k].start_time + Coverage(crops, k + 1)

RECURSIVE SumDurations(_, _, _)
\* Sum of the durations of the scenes k..Len(h) that were dropped (d = TRUE)
\* or kept (d = FALSE).
SumDurations(h, k, d) ==
    IF k > Len(h) THEN 0
    ELSE (IF h[k].dropped = d THEN h[k].duration ELSE 0) + SumDurations(h, k + 1, d)

TotalDuration(h) == SumDurations(h, 1, TRUE) + SumDurations(h, 1, FALSE)

SomeDropped(h) == \E k \in 1..Len(h) : h[k].dropped

MultiReturned == AnalysisReturned /\ result.success /\ result.type = "multi"

OrderedDisjoint(crops) ==
    /\ \A k \in 1..Len(crops) : crops[k].start_time <= crops[k].end_time
    /\ \A k \in 1..(Len(crops) - 1) :
          /\ crops[k].start_time <= crops[k + 1].start_time
          /\ crops[k].end_time <= crops[k + 1].start_time

\* C4 as stated: in a 'multi' plan the segments are ordered and disjoint,
\* their coverage equals the scenes' total duration when none is dropped, and
\* is strictly less, by the dropped duration, when one is.
C4_Original ==
    MultiReturned =>
        /\ OrderedDisjoint(result.scenes)
        /\ ~SomeDropped(seen) =>
              Coverage(result.scenes, 1) = TotalDuration(seen)
        /\ SomeDropped(seen) =>
              /\ Coverage(result.scenes, 1) < TotalDuration(seen)
              /\ TotalDuration(seen) - Coverage(result.scenes, 1)
                    = SumDurations(seen, 1, TRUE)

\* C4, amended: in a 'multi' plan the segments are ordered by start_time and
\* disjoint, and their coverage equals the total duration of the scenes the
\* segmentation returned minus the durations of the dropped ones: it is the
\* total when none is dropped, and strictly less exactly when a dropped scene
\* has a positive duration (a scene file without frames has duration 0).
C4_CoverageIsTotalMinusDropped ==
    MultiReturned =>
        /\ Len(seen) = nScenes
        /\ OrderedDisjoint(result.scenes)
        /\ Coverage(result.scenes, 1)
              = TotalDuration(seen) - SumDurations(seen, 1, TRUE)
        /\ Coverage(result.scenes, 1) < TotalDuration(seen)
              <=> \E k \in 1..Len(seen) : seen[k].dropped /\ seen[k].duration > 0

\* A 'multi' plan of a kept scene of positive duration and a dropped scene
\* of positive duration.
C4_Witness ==
    /\ MultiReturned
    /\ \E k \in 1..Len(seen) : seen[k].dropped /\ seen[k].duration > 0
    /\ \E k \in 1..Len(seen) : ~seen[k].dropped /\ seen[k].duration > 0
    /\ Coverage(result.scenes, 1) > 0

\* The segmentation gave the scene loop nothing to keep: it failed, it
\* returned no scene, or every scene was dropped.
SegmentationFruitless ==
    /\ nScenedetect = 1
    /\ Len(seen) = nScenes
    /\ \A k \in 1..Len(seen) : seen[k].dropped

\* C5: for a video of 10 seconds or more, when the segmentation fails, yields
\* no segment, or has every segment dropped, the analysis returns what the
\* whole-video path returns.
C5_SegmentationFailureDegrades ==
    (AnalysisReturned /\ Duration(video) >= 10 /\ SegmentationFruitless) =>
        /\ nDirect = 1
        /\ ~(~result.success /\ result.error = "CalledProcessError")

\* C6: when the processing of a video has ended, in analyze_crop_coordinates
\* or in process_video, on success and on failure, no temporary scene file
\* of that video exists.
C6_NoTempFilesLeft ==
    /\ pc \in {"returned", "crashed", "b_end"} => tempFiles = {}
    /\ pc = "b_loop" => \A f \in tempFiles : f[1] >= vi

\* C7: in batch mode no exception reaches main's loop, and when the run has
\* ended every video of the batch has been processed.
C7_BatchFailureContained ==
    mode = "batch" =>
        /\ ~escaped
        /\ pc \in {"b_end", "crashed"} =>
              \A k \in 1..nVideos : status[k] # "pending"

\* C9: a result with success = true carries a 'crop' record with w, h, x, y
\* and confidence and a 'source' record with width and height, whichever
\* path produced it.
C9_SuccessHasCropAndSource ==
    (AnalysisReturned /\ result.success) =>
        /\ "crop" \in DOMAIN result
        /\ "source" \in DOMAIN result
        /\ {"w", "h", "x", "y", "confidence"} \subseteq DOMAIN result.crop
        /\ {"width", "height"} \subseteq DOMAIN result.source

\* C10: for N >= 1 and frame_count >= 1, sample_frames_direct raises nothing
\* and requests only indices within [start, end]; for N = 1 it requests
\* exactly the index start.
C10_DirectSamplerInRange ==
    (sampDone /\ sampIn.num_frames >= 1 /\ sampIn.frame_count >= 1) =>
        /\ ~sampOut.raised
        /\ Len(sampOut.idxs) = sampIn.num_frames
        /\ \A k \in 1..Len(sampOut.idxs) :
              /\ StartFrame(sampIn.frame_count) <= sampOut.idxs[k]
              /\ sampOut.idxs[k] <= EndFrame(sampIn.frame_count)
        /\ sampIn.num_frames = 1 =>
              sampOut.idxs = <<StartFrame(sampIn.frame_count)>>

\* v = int(a / b) for b > 0, stated by its bounds.
IsTrunc(v, a, b) ==
    IF a >= 0 THEN b * v <= a /\ a < b * (v + 1)
    ELSE b * (v - 1) < a /\ a <= b * v

\* v = round(a / b) for a >= 0, b > 0 (half to even), stated by its bounds.
IsRound(v, a, b) ==
    \/ 2 * Abs(a - b * v) < b
    \/ 2 * Abs(a - b * v) = b /\ v % 2 = 0

ScenarioA ==
    [width |-> 1920, height |-> 1080, center |-> Rat(960, 1), padding |-> Rat(5, 100)]

\* The placement both readings of C8 share: x is int(focus - w / 2) clamped
\* to [0, source_width - w].
PlacedAt(x, w) ==
    \E t \in (-cropIn.width - 1)..(cropIn.width + 1) :
        /\ IsTrunc(t, 2 * cropIn.center.n - w * cropIn.center.d, 2 * cropIn.center.d)
        /\ x = Max(0, Min(t, cropIn.width - w))

\* C8 as stated: the crop width is round(source_height * 9/16) clamped to
\* source_width, minus 2 * round(that width * padding_ratio); x is
\* focus - width/2 clamped; for 1920x1080, focus 960, padding 0.05 the width
\* is 548, x is 686 and the confidence 1.0.
C8_Original ==
    cropDone =>
        /\ \E w0 \in 0..cropIn.height :
              /\ IsRound(w0, 9 * cropIn.height, 16)
              /\ \E pad \in 0..cropIn.height :
                    /\ IsRound(pad, Min(w0, cropIn.width) * cropIn.padding.n,
                               cropIn.padding.d)
                    /\ cropOut.w = Min(w0, cropIn.width) - 2 * pad
        /\ PlacedAt(cropOut.x, cropOut.w)
        /\ cropIn = ScenarioA =>
              /\ cropOut.w = 548
              /\ cropOut.x = 686
              /\ cropOut.confidence.n = cropOut.confidence.d

\* C8, amended: the crop width is int(source_height * 9/16), truncated, not
\* rounded, clamped to source_width, minus 2 * int(that width *
\* padding_ratio); x is int(focus - width/2) clamped to
\* [0, source_width - width]; for 1920x1080, focus 960, padding 0.05 the
\* width is 547, x is 686 and the confidence 1.0.
C8_TruncatedWidth ==
    cropDone =>
        /\ \E w0 \in 0..cropIn.height :
              /\ IsTrunc(w0, 9 * cropIn.height, 16)
              /\ \E pad \in 0..cropIn.height :
                    /\ IsTrunc(pad, Min(w0, cropIn.width) * cropIn.padding.n,
                               cropIn.padding.d)
                    /\ cropOut.w = Min(w0, cropIn.width) - 2 * pad
        /\ PlacedAt(cropOut.x, cropOut.w)
        /\ cropIn = ScenarioA =>
              /\ cropOut.w = 547
              /\ cropOut.x = 686
              /\ cropOut.confidence.n = cropOut.confidence.d

\* Scenario A has been planned.
C8_Witness ==
    /\ cropDone
    /\ cropIn = ScenarioA
    /\ cropOut.w = 547
    /\ cropOut.x = 686

====
